---------------------------- MODULE Spec2Model ----------------------------
(***************************************************************************)
(* Model of the smart-house device-driver layer (src/src/lib.rs):          *)
(*   - MockSocketDriver and TcpSocketDriver behind the SmartSocket facade, *)
(*   - the TCP socket emulator (run_socket_emulator / handle_client),      *)
(*   - UdpThermometerDriver with its listener thread behind the            *)
(*     SmartThermometer facade,                                            *)
(*   - Room and SmartHouse, the containers of the devices.                 *)
(*                                                                         *)
(* Text is a sequence of one-character strings; the string "xFF" stands    *)
(* for a byte that is not valid UTF-8 and "uFFFD" for the replacement      *)
(* character.  An f32 is kept in fixed point, as a whole number of         *)
(* hundredths (1500.0 is 150000, 21.5 is 2150); every value the model      *)
(* formats or parses has at most two fractional digits.                    *)
(***************************************************************************)
EXTENDS Integers, Sequences, FiniteSets, TLC

(***************************************************************************)
(* Bounds of the model.                                                    *)
(***************************************************************************)
NumClients == 2
MaxCalls == 3
MaxDatagrams == 3
MaxQueue == 2

(***************************************************************************)
(* Program constants.                                                      *)
(***************************************************************************)
BufSize == 64

Clients == 1..NumClients

None == [some |-> FALSE]
Some(v) == [some |-> TRUE, v |-> v]

Ok(v) == [ok |-> TRUE, v |-> v]
Err(e) == [ok |-> FALSE, e |-> e]

(***************************************************************************)
(* Text helpers.                                                           *)
(***************************************************************************)
Take(s, n) == IF Len(s) <= n THEN s ELSE SubSeq(s, 1, n)

Pad(n) == [i \in 1..n |-> " "]

IsWhite(ch) == ch \in {" ", "\n", "\r", "\t"}

RECURSIVE TrimStart(_)
TrimStart(s) ==
    IF s = <<>> THEN s
    ELSE IF IsWhite(Head(s)) THEN TrimStart(Tail(s)) ELSE s

RECURSIVE TrimEnd(_)
TrimEnd(s) ==
    IF s = <<>> THEN s
    ELSE IF IsWhite(s[Len(s)]) THEN TrimEnd(SubSeq(s, 1, Len(s) - 1)) ELSE s

\* str::trim
Trim(s) == TrimEnd(TrimStart(s))

\* std::str::from_utf8: fails on any byte that is not valid UTF-8
FromUtf8(bytes) ==
    IF \E i \in 1..Len(bytes) : bytes[i] = "xFF"
    THEN Err("utf8") ELSE Ok(bytes)

\* String::from_utf8_lossy: an invalid byte becomes U+FFFD
FromUtf8Lossy(bytes) ==
    [i \in 1..Len(bytes) |-> IF bytes[i] = "xFF" THEN "uFFFD" ELSE bytes[i]]

(***************************************************************************)
(* f32 text conversions, on hundredths.                                    *)
(***************************************************************************)
DigitChars == <<"0", "1", "2", "3", "4", "5", "6", "7", "8", "9">>

IsDigit(ch) == \E d \in 1..10 : DigitChars[d] = ch

DigitVal(ch) == (CHOOSE d \in 1..10 : DigitChars[d] = ch) - 1

DigitChar(d) == DigitChars[d + 1]

RECURSIVE NatText(_)
NatText(n) ==
    IF n < 10 THEN <<DigitChar(n)>>
    ELSE Append(NatText(n \div 10), DigitChar(n % 10))

Abs(v) == IF v < 0 THEN 0 - v ELSE v

SignText(v) == IF v < 0 THEN <<"-">> ELSE <<>>

\* f32 Display with no precision ("{}", to_string): the shortest text that
\* reads back as the same value; a whole number has no fractional part.
F32ToString(v) ==
    LET a == Abs(v)
        ip == a \div 100
        fp == a % 100
        frac == IF fp = 0 THEN <<>>
                ELSE IF fp % 10 = 0 THEN <<".", DigitChar(fp \div 10)>>
                ELSE <<".", DigitChar(fp \div 10), DigitChar(fp % 10)>>
    IN SignText(v) \o NatText(ip) \o frac

\* "{:.2}": always two fractional digits
F32Fixed2(v) ==
    LET a == Abs(v)
    IN SignText(v) \o NatText(a \div 100)
         \o <<".", DigitChar((a % 100) \div 10), DigitChar(a % 10)>>

\* "{:.1}": one fractional digit, an exact tie going to the even digit
F32Fixed1(v) ==
    LET a == Abs(v)
        t == a \div 10
        r == a % 10
        q == IF r > 5 \/ (r = 5 /\ t % 2 = 1) THEN t + 1 ELSE t
    IN SignText(v) \o NatText(q \div 10) \o <<".", DigitChar(q % 10)>>

AllDigits(s) == \A i \in 1..Len(s) : IsDigit(s[i])

RECURSIVE DigitsVal(_)
DigitsVal(s) ==
    IF s = <<>> THEN 0
    ELSE 10 * DigitsVal(SubSeq(s, 1, Len(s) - 1)) + DigitVal(s[Len(s)])

\* the first two fractional digits, as hundredths
FracVal(s) ==
    (IF Len(s) >= 1 THEN 10 * DigitVal(s[1]) ELSE 0)
      + (IF Len(s) >= 2 THEN DigitVal(s[2]) ELSE 0)

\* <f32 as FromStr>::from_str on the decimal forms: an optional sign, digits
\* with an optional "." and more digits, at least one digit in all.  No
\* surrounding white space is accepted.
ParseF32(s) ==
    LET signed == s # <<>> /\ Head(s) \in {"+", "-"}
        body == IF signed THEN Tail(s) ELSE s
        dots == {i \in 1..Len(body) : body[i] = "."}
        dot == IF dots = {} THEN Len(body) + 1
               ELSE CHOOSE i \in dots : \A j \in dots : i <= j
        ip == SubSeq(body, 1, dot - 1)
        fp == SubSeq(body, dot + 1, Len(body))
        mag == 100 * DigitsVal(ip) + FracVal(fp)
    IN IF AllDigits(ip) /\ AllDigits(fp) /\ Len(ip) + Len(fp) > 0
       THEN Ok(IF signed /\ Head(s) = "-" THEN 0 - mag ELSE mag)
       ELSE Err("parse")


(***************************************************************************)
(* State.                                                                  *)
(*   init_state, power   arguments of MockSocketDriver::new                *)
(*   initial_power       argument of run_socket_emulator                   *)
(*   kind                what each client thread is: the owner of a        *)
(*                       SmartSocket over a clone of the MockSocketDriver  *)
(*                       ("mock"), the owner of a SmartSocket over a       *)
(*                       TcpSocketDriver ("tcp"), or a plain TCP peer that *)
(*                       writes bytes of its own ("raw"); "mock_show" and  *)
(*                       "tcp_show" are owners that render their           *)
(*                       SmartSocket, "none" is no thread at all           *)
(*   mock                MockSocketDriver.state, shared by the clones      *)
(*   emu                 the emulator's state tuple                        *)
(*   lock                the handler holding the emulator's Mutex, or 0    *)
(*   cl                  each client's position, current call and the      *)
(*                       result of its latest finished call                *)
(*   conn                each client's connection and the handler thread   *)
(*                       serving it                                        *)
(*   calls, lastCtl, fault   history: calls issued, the latest finished    *)
(*                       turn_on/turn_off, whether any I/O step of a       *)
(*                       round trip has failed                             *)
(*   lastMock            history: the latest turn_on/turn_off through any  *)
(*                       clone of the MockSocketDriver                     *)
(*   render              each client's position in rendering the summary   *)
(*                       of its SmartSocket, and what it has rendered      *)
(*   latest_temp         UdpThermometerDriver.latest_temp, shared with the *)
(*                       listener thread                                   *)
(*   listener            the listener thread: about to bind, polling, or   *)
(*                       dead                                              *)
(*   inq                 datagrams waiting in the bound socket             *)
(*   nsent, processed    history: datagrams sent, and for each datagram    *)
(*                       the listener received what its sender meant       *)
(*   thermo              the result of the latest SmartThermometer query   *)
(*   house               SmartHouse.rooms: for each key the Room stored    *)
(*                       under it, if any                                  *)
(*   hres                the latest Room/SmartHouse operation and what it  *)
(*                       returned                                          *)
(***************************************************************************)
VARIABLES init_state, power, initial_power, kind,
          mock, lastMock, emu, lock, cl, conn, calls, lastCtl, fault, render,
          latest_temp, listener, inq, nsent, processed, thermo,
          house, hres

sockVars == <<init_state, power, initial_power, kind,
              mock, lastMock, emu, lock, cl, conn, calls, lastCtl, fault,
              render>>
thermoVars == <<latest_temp, listener, inq, nsent, processed, thermo>>
houseVars == <<house, hres>>
vars == <<sockVars, thermoVars, houseVars>>

Watts == {150000, 1050}

Kinds == {"mock", "tcp", "raw"}

KindRank(k) == CASE k = "mock" -> 0 [] k = "tcp" -> 1 [] k = "raw" -> 2

CtlOps == {"turn_on", "turn_off"}
ReadOps == {"is_on", "current_power"}
Ops == CtlOps \cup ReadOps

T_ON == <<"O", "N">>
T_OFF == <<"O", "F", "F">>
T_STATE == <<"S", "T", "A", "T", "E">>
T_POWER == <<"P", "O", "W", "E", "R">>
T_OK == <<"O", "K">>
T_ERR == <<"E", "R", "R">>

\* the command each TcpSocketDriver operation sends
CmdBytes(op) ==
    CASE op = "turn_on" -> T_ON
      [] op = "turn_off" -> T_OFF
      [] op = "is_on" -> T_STATE
      [] op = "current_power" -> T_POWER

\* what a plain TCP peer may write: a command as the driver writes it,
\* commands wrapped in white space, other text, a byte that is not UTF-8,
\* and a request longer than the handler's buffer
RawRequests ==
    {T_POWER, <<"O", "N", "\n">>, <<" ", "O", "F", "F">>, <<"o", "n">>,
     <<"xFF">>, T_ON \o Pad(BufSize - 2) \o <<"X">>}

NoRes == [op |-> "none"]
NoRender == [st |-> "none"]
NoConn == [hpc |-> "none", inbuf |-> <<>>, cdrop |-> FALSE,
           cmd |-> <<>>, pre |-> None, resp |-> <<>>, out |-> <<>>]
Idle == [pc |-> "idle", op |-> "none", req |-> <<>>, res |-> NoRes]

Ret(v) == [kind |-> "ret", v |-> v]
Panic == [kind |-> "panic"]

(***************************************************************************)
(* MockSocketDriver: each operation locks the shared tuple for one         *)
(* statement.                                                              *)
(***************************************************************************)
MockSocketDriver_new(initial, p) == [on |-> initial, power |-> p]

MockSocketDriver_turn_on(st) == [st EXCEPT !.on = TRUE]

MockSocketDriver_turn_off(st) == [st EXCEPT !.on = FALSE]

\* a variant that answers the flag the driver was constructed with
MockSocketDriver_is_on_stale(st) == Ok(init_state)

MockSocketDriver_is_on(st) == Ok(st.on)

MockSocketDriver_current_power(st) == Ok(IF st.on THEN st.power ELSE 0)

(***************************************************************************)
(* TcpSocketDriver: what each operation makes of the result of send_cmd    *)
(* (Ok(text read up to the peer's close) or Err).                          *)
(***************************************************************************)
TcpSocketDriver_turn_on(sent) == IF sent.ok THEN Ok("unit") ELSE sent

TcpSocketDriver_turn_off(sent) == IF sent.ok THEN Ok("unit") ELSE sent

\* a variant that compares the reply as it was read
TcpSocketDriver_is_on_untrimmed(sent) ==
    IF sent.ok THEN Ok(sent.v = T_ON) ELSE sent

TcpSocketDriver_is_on(sent) ==
    IF sent.ok THEN Ok(Trim(sent.v) = T_ON) ELSE sent

TcpSocketDriver_current_power(sent) ==
    IF sent.ok THEN ParseF32(Trim(sent.v)) ELSE sent

TcpDriver(op, sent) ==
    CASE op = "turn_on" -> TcpSocketDriver_turn_on(sent)
      [] op = "turn_off" -> TcpSocketDriver_turn_off(sent)
      [] op = "is_on" -> TcpSocketDriver_is_on(sent)
      [] op = "current_power" -> TcpSocketDriver_current_power(sent)

(***************************************************************************)
(* SmartSocket: the facade over Box<dyn SocketDriver>.                     *)
(***************************************************************************)
SmartSocket_turn_on(r) == IF r.ok THEN Ret("unit") ELSE Panic

SmartSocket_turn_off(r) == IF r.ok THEN Ret("unit") ELSE Panic

\* a variant that treats a driver error as is_on's callers' fault
SmartSocket_is_on_expect(r) == IF r.ok THEN Ret(r.v) ELSE Panic

SmartSocket_is_on(r) == IF r.ok THEN Ret(r.v) ELSE Ret(FALSE)

SmartSocket_current_power(r) == IF r.ok THEN Ret(r.v) ELSE Ret(0)

SmartSocket(op, r) ==
    CASE op = "turn_on" -> SmartSocket_turn_on(r)
      [] op = "turn_off" -> SmartSocket_turn_off(r)
      [] op = "is_on" -> SmartSocket_is_on(r)
      [] op = "current_power" -> SmartSocket_current_power(r)

(***************************************************************************)
(* handle_client: the match on the decoded command, under the lock.        *)
(***************************************************************************)
\* the command as the handler decodes it from the bytes one read returned
\* a variant that does not trim
DecodeCmdNoTrim(bytes) == FromUtf8Lossy(Take(bytes, BufSize))

DecodeCmd(bytes) == Trim(FromUtf8Lossy(Take(bytes, BufSize)))

\* a variant in which ON flips the flag
MatchStateToggle(cmd, st) ==
    CASE cmd = T_ON -> [st EXCEPT !.on = ~st.on]
      [] cmd = T_OFF -> [st EXCEPT !.on = FALSE]
      [] OTHER -> st

\* a variant in which a request that is no command switches the socket off
MatchStateDefaultOff(cmd, st) ==
    CASE cmd = T_ON -> [st EXCEPT !.on = TRUE]
      [] cmd \in {T_STATE, T_POWER} -> st
      [] OTHER -> [st EXCEPT !.on = FALSE]

\* a variant in which OFF stores the power an idle socket draws
MatchStateOffZero(cmd, st) ==
    CASE cmd = T_ON -> [st EXCEPT !.on = TRUE]
      [] cmd = T_OFF -> [on |-> FALSE, power |-> 0]
      [] OTHER -> st

MatchState(cmd, st) ==
    CASE cmd = T_ON -> [st EXCEPT !.on = TRUE]
      [] cmd = T_OFF -> [st EXCEPT !.on = FALSE]
      [] OTHER -> st

\* a variant in which POWER replies the wattage whatever the flag
MatchReplyAlwaysPower(cmd, st) ==
    CASE cmd = T_ON -> T_OK
      [] cmd = T_OFF -> T_OK
      [] cmd = T_POWER -> F32ToString(st.power)
      [] cmd = T_STATE -> (IF st.on THEN T_ON ELSE T_OFF)
      [] OTHER -> T_ERR

MatchReply(cmd, st) ==
    CASE cmd = T_ON -> T_OK
      [] cmd = T_OFF -> T_OK
      [] cmd = T_POWER -> F32ToString(IF st.on THEN st.power ELSE 0)
      [] cmd = T_STATE -> (IF st.on THEN T_ON ELSE T_OFF)
      [] OTHER -> T_ERR

(***************************************************************************)
(* UDP telemetry.  A datagram is its bytes together with what its sender   *)
(* meant by it: Some(reading) or None for a payload that is no reading.    *)
(* The listener sees the bytes only.                                       *)
(***************************************************************************)
\* readings run_thermometer_emulator may draw
EmuTemps == {0, 2150}

\* run_thermometer_emulator: format!("{:.2}", temp)
EmulatorPayload(t) == [bytes |-> F32Fixed2(t), val |-> Some(t)]

\* datagrams of other senders (the sender is not checked): text that is no
\* number, a byte that is not UTF-8, an empty datagram, a reading wrapped in
\* white space, and a datagram longer than the listener's buffer, of which
\* the receive keeps the first BufSize bytes
ForeignPayloads ==
    {[bytes |-> <<"n", "o", "t", "-", "a", "-", "n", "u", "m", "b", "e", "r">>,
      val |-> None],
     [bytes |-> <<"2", "xFF">>, val |-> None],
     [bytes |-> <<>>, val |-> None],
     [bytes |-> <<" ", "1", "8", ".", "2", "5", "\n">>, val |-> Some(1825)],
     [bytes |-> <<"7", ".", "5">> \o Pad(BufSize - 3) \o <<"x">>,
      val |-> Some(750)]}

\* a variant in which a datagram that is no reading clears the cache
ListenerStoreReset(bytes, cache) ==
    LET s == FromUtf8(Take(bytes, BufSize))
        t == IF s.ok THEN ParseF32(Trim(s.v)) ELSE s
    IN IF t.ok THEN Some(t.v) ELSE None

\* the listener's handling of one received datagram: the new cache
ListenerStore(bytes, cache) ==
    LET s == FromUtf8(Take(bytes, BufSize))
        t == IF s.ok THEN ParseF32(Trim(s.v)) ELSE s
    IN IF t.ok THEN Some(t.v) ELSE cache

\* a variant that answers 0.0 when there is no reading
LatestTemperatureOrDefault(cache) == IF cache.some THEN Ok(cache.v) ELSE Ok(0)

\* UdpThermometerDriver::latest_temperature
UdpThermometerDriver_latest_temperature(cache) ==
    IF cache.some THEN Ok(cache.v) ELSE Err("no data")

\* SmartThermometer::get_current_temperature
SmartThermometer_get_current_temperature(r) == IF r.ok THEN r.v ELSE 0

\* Display for SmartThermometer: the reading as the summary shows it
SmartThermometer_fmt(t) == F32Fixed1(t)

InitThermo ==
    /\ latest_temp = None
    /\ listener = "bind"
    /\ inq = <<>>
    /\ nsent = 0
    /\ processed = <<>>
    /\ thermo = NoRes

\* UdpSocket::bind and set_nonblocking succeed
ListenerBind ==
    /\ listener = "bind"
    /\ listener' = "poll"
    /\ UNCHANGED <<latest_temp, inq, nsent, processed, thermo, sockVars,
                   houseVars>>

\* UdpSocket::bind fails: expect() panics and the listener thread is gone
ListenerBindFail ==
    /\ listener = "bind"
    /\ listener' = "dead"
    /\ UNCHANGED <<latest_temp, inq, nsent, processed, thermo, sockVars,
                   houseVars>>

\* a datagram is sent to the driver's address; it is queued when the socket
\* is bound and has room, and lost otherwise
Deliver(d) ==
    /\ nsent < MaxDatagrams
    /\ nsent' = nsent + 1
    /\ inq' = IF listener = "poll" /\ Len(inq) < MaxQueue
              THEN Append(inq, d) ELSE inq
    /\ UNCHANGED <<latest_temp, listener, processed, thermo, sockVars,
                   houseVars>>

\* run_thermometer_emulator: one round of the loop, the send succeeding
EmulatorSend(t) == Deliver(EmulatorPayload(t))

\* another sender's datagram
ForeignSend(d) == Deliver(d)

\* one round of the listener's loop in which recv_from returns a datagram
\* (a round in which it returns Err changes nothing)
ListenerRecv ==
    /\ listener = "poll"
    /\ inq # <<>>
    /\ inq' = Tail(inq)
    /\ latest_temp' = ListenerStore(Head(inq).bytes, latest_temp)
    /\ processed' = Append(processed, Head(inq).val)
    /\ UNCHANGED <<listener, nsent, thermo, sockVars, houseVars>>

\* the owner of the SmartThermometer reads it and renders its summary
ThermoQuery ==
    /\ LET r == UdpThermometerDriver_latest_temperature(latest_temp)
           t == SmartThermometer_get_current_temperature(r)
       IN thermo' = [op |-> "get_current_temperature", drv |-> r, fac |-> t,
                     shown |-> SmartThermometer_fmt(t), after |-> processed]
    /\ UNCHANGED <<latest_temp, listener, inq, nsent, processed, sockVars,
                   houseVars>>

NextThermo ==
    \/ ListenerBind
    \/ ListenerBindFail
    \/ \E t \in EmuTemps : EmulatorSend(t)
    \/ \E d \in ForeignPayloads : ForeignSend(d)
    \/ ListenerRecv
    \/ ThermoQuery

(***************************************************************************)
(* Initial state: the drivers constructed, the emulator bound and          *)
(* listening with powered = false, every client thread idle.               *)
(***************************************************************************)
RECURSIVE SumUpTo(_, _)
SumUpTo(f, n) == IF n = 0 THEN 0 ELSE f[n] + SumUpTo(f, n - 1)

\* calls issued so far, by all clients
TotalCalls == SumUpTo(calls, NumClients)

\* everything but the constructors' arguments and the clients' kinds
InitSockState ==
    /\ mock = MockSocketDriver_new(init_state, power)
    /\ emu = [on |-> FALSE, power |-> initial_power]
    /\ lock = 0
    /\ cl = [c \in Clients |-> Idle]
    /\ conn = [c \in Clients |-> NoConn]
    /\ calls = [c \in Clients |-> 0]
    /\ lastCtl = [c \in Clients |-> "none"]
    /\ fault = FALSE
    /\ lastMock = "none"
    /\ render = [c \in Clients |-> NoRender]

\* any arguments, any clients (clients are interchangeable: their kinds are
\* listed in one order); a backend no client uses gets one fixed argument
InitSock ==
    /\ init_state \in BOOLEAN
    /\ power \in Watts
    /\ initial_power \in Watts
    /\ kind \in [Clients -> Kinds]
    /\ \A c, d \in Clients : c < d => KindRank(kind[c]) <= KindRank(kind[d])
    /\ (\A c \in Clients : kind[c] # "mock")
         => init_state = FALSE /\ power = 150000
    /\ (\A c \in Clients : kind[c] = "mock") => initial_power = 150000
    /\ InitSockState

\* the call of client c returns: r is the driver's Result, out what the
\* facade makes of it
Return(c, r, out) ==
    /\ cl' = [cl EXCEPT ![c] =
                [pc |-> IF out.kind = "panic" THEN "panicked" ELSE "idle",
                 op |-> "none", req |-> <<>>,
                 res |-> [op |-> cl[c].op, req |-> cl[c].req,
                          drv |-> r, fac |-> out]]]
    /\ lastCtl' = [lastCtl EXCEPT ![c] =
                     IF cl[c].op \in CtlOps THEN cl[c].op ELSE @]

\* send_cmd returned `sent` to the operation client c is in
SendCmdReturns(c, sent) ==
    IF cl[c].op = "raw"
    THEN Return(c, sent, Ret(sent))
    ELSE Return(c, TcpDriver(cl[c].op, sent),
                SmartSocket(cl[c].op, TcpDriver(cl[c].op, sent)))

Faulted(c) == fault' = TRUE

(***************************************************************************)
(* A SmartSocket operation over the MockSocketDriver, in one step.         *)
(***************************************************************************)
MockCall(c, op) ==
    /\ kind[c] = "mock"
    /\ cl[c].pc = "idle"
    /\ TotalCalls < MaxCalls
    /\ calls' = [calls EXCEPT ![c] = @ + 1]
    /\ mock' = CASE op = "turn_on" -> MockSocketDriver_turn_on(mock)
                 [] op = "turn_off" -> MockSocketDriver_turn_off(mock)
                 [] OTHER -> mock
    /\ LET r == CASE op = "is_on" -> MockSocketDriver_is_on(mock)
                  [] op = "current_power" -> MockSocketDriver_current_power(mock)
                  [] OTHER -> Ok("unit")
       IN /\ cl' = [cl EXCEPT ![c].res =
                      [op |-> op, req |-> <<>>, drv |-> r,
                       fac |-> SmartSocket(op, r)]]
          /\ lastCtl' = [lastCtl EXCEPT ![c] = IF op \in CtlOps THEN op ELSE @]
    /\ lastMock' = IF op \in CtlOps THEN op ELSE lastMock
    /\ UNCHANGED <<init_state, power, initial_power, kind, emu, lock, conn,
                   fault, render, thermoVars, houseVars>>

(***************************************************************************)
(* A SmartSocket operation over the TcpSocketDriver: send_cmd step by      *)
(* step.                                                                   *)
(***************************************************************************)
\* the client enters an operation; its previous connection is gone
Call(c, op) ==
    /\ kind[c] = "tcp"
    /\ cl[c].pc = "idle"
    /\ conn[c].hpc \in {"none", "closed", "aborted"}
    /\ TotalCalls < MaxCalls
    /\ calls' = [calls EXCEPT ![c] = @ + 1]
    /\ cl' = [cl EXCEPT ![c] =
                [pc |-> "connect", op |-> op, req |-> CmdBytes(op),
                 res |-> NoRes]]
    /\ conn' = [conn EXCEPT ![c] = NoConn]
    /\ UNCHANGED <<init_state, power, initial_power, kind, mock, lastMock,
                   emu, lock, lastCtl, fault, render, thermoVars, houseVars>>

\* a plain TCP peer starts a request of its own bytes
RawCall(c, bytes) ==
    /\ kind[c] = "raw"
    /\ cl[c].pc = "idle"
    /\ conn[c].hpc \in {"none", "closed", "aborted"}
    /\ TotalCalls < MaxCalls
    /\ calls' = [calls EXCEPT ![c] = @ + 1]
    /\ cl' = [cl EXCEPT ![c] =
                [pc |-> "connect", op |-> "raw", req |-> bytes,
                 res |-> NoRes]]
    /\ conn' = [conn EXCEPT ![c] = NoConn]
    /\ UNCHANGED <<init_state, power, initial_power, kind, mock, lastMock,
                   emu, lock, lastCtl, fault, render, thermoVars, houseVars>>

\* TcpStream::connect succeeds: the connection waits in the listener's queue
Connect(c) ==
    /\ cl[c].pc = "connect"
    /\ cl' = [cl EXCEPT ![c].pc = "write"]
    /\ conn' = [conn EXCEPT ![c].hpc = "backlog"]
    /\ UNCHANGED <<init_state, power, initial_power, kind, mock, lastMock,
                   emu, lock, calls, lastCtl, fault, render, thermoVars,
                   houseVars>>

\* TcpStream::connect fails: `?` returns the error
ConnectFail(c) ==
    /\ cl[c].pc = "connect"
    /\ SendCmdReturns(c, Err("io"))
    /\ Faulted(c)
    /\ UNCHANGED <<init_state, power, initial_power, kind, mock, lastMock,
                   emu, lock, conn, calls, render, thermoVars, houseVars>>

\* write_all and flush succeed
Write(c) ==
    /\ cl[c].pc = "write"
    /\ cl' = [cl EXCEPT ![c].pc = "read"]
    /\ conn' = [conn EXCEPT ![c].inbuf = cl[c].req]
    /\ UNCHANGED <<init_state, power, initial_power, kind, mock, lastMock,
                   emu, lock, calls, lastCtl, fault, render, thermoVars,
                   houseVars>>

\* write_all or flush fails: `?` returns the error and the stream is dropped
WriteFail(c) ==
    /\ cl[c].pc = "write"
    /\ SendCmdReturns(c, Err("io"))
    /\ conn' = [conn EXCEPT ![c].cdrop = TRUE]
    /\ Faulted(c)
    /\ UNCHANGED <<init_state, power, initial_power, kind, mock, lastMock,
                   emu, lock, calls, render, thermoVars, houseVars>>

\* read_to_string returns at the peer's close with what the peer wrote
ClientRead(c) ==
    /\ cl[c].pc = "read"
    /\ conn[c].hpc = "closed"
    /\ SendCmdReturns(c, Ok(conn[c].out))
    /\ UNCHANGED <<init_state, power, initial_power, kind, mock, lastMock,
                   emu, lock, conn, calls, fault, render, thermoVars,
                   houseVars>>

\* read_to_string fails
ClientReadFail(c) ==
    /\ cl[c].pc = "read"
    /\ conn[c].hpc \in {"closed", "aborted"}
    /\ SendCmdReturns(c, Err("io"))
    /\ Faulted(c)
    /\ UNCHANGED <<init_state, power, initial_power, kind, mock, lastMock,
                   emu, lock, conn, calls, render, thermoVars, houseVars>>

(***************************************************************************)
(* run_socket_emulator and handle_client.                                  *)
(***************************************************************************)
\* a variant in which the handler takes the lock before it reads
AcceptThenLock(c) ==
    /\ conn[c].hpc = "backlog"
    /\ lock = 0
    /\ lock' = c
    /\ conn' = [conn EXCEPT ![c].hpc = "reading"]
    /\ UNCHANGED <<init_state, power, initial_power, kind, mock, lastMock,
                   emu, cl, calls, lastCtl, fault, render, thermoVars,
                   houseVars>>

\* listener.incoming() yields Ok(stream): a handler thread is spawned
Accept(c) ==
    /\ conn[c].hpc = "backlog"
    /\ conn' = [conn EXCEPT ![c].hpc = "reading"]
    /\ UNCHANGED <<init_state, power, initial_power, kind, mock, lastMock,
                   emu, lock, cl, calls, lastCtl, fault, render, thermoVars,
                   houseVars>>

\* listener.incoming() yields Err: the connection is skipped, no handler
\* serves it and the client's read can only fail
AcceptFail(c) ==
    /\ conn[c].hpc = "backlog"
    /\ conn' = [conn EXCEPT ![c] = [NoConn EXCEPT !.hpc = "aborted"]]
    /\ Faulted(c)
    /\ UNCHANGED <<init_state, power, initial_power, kind, mock, lastMock,
                   emu, lock, cl, calls, lastCtl, render, thermoVars,
                   houseVars>>

\* stream.read returns Ok(size): the bytes that arrived, at most one buffer
\* (nothing when the client has gone without writing)
HandlerRead(c) ==
    /\ conn[c].hpc = "reading"
    /\ conn[c].inbuf # <<>> \/ conn[c].cdrop
    /\ conn' = [conn EXCEPT ![c].hpc = "wantlock",
                            ![c].cmd = DecodeCmd(conn[c].inbuf)]
    /\ UNCHANGED <<init_state, power, initial_power, kind, mock, lastMock,
                   emu, lock, cl, calls, lastCtl, fault, render, thermoVars,
                   houseVars>>

\* stream.read returns Err: the handler ends without a reply
HandlerReadFail(c) ==
    /\ conn[c].hpc = "reading"
    /\ conn' = [conn EXCEPT ![c] = [NoConn EXCEPT !.hpc = "closed"]]
    /\ Faulted(c)
    /\ UNCHANGED <<init_state, power, initial_power, kind, mock, lastMock,
                   emu, lock, cl, calls, lastCtl, render, thermoVars,
                   houseVars>>

\* a variant that does not wait for the lock
HandlerLockNoWait(c) ==
    /\ conn[c].hpc = "wantlock"
    /\ lock' = c
    /\ conn' = [conn EXCEPT ![c].hpc = "locked"]
    /\ UNCHANGED <<init_state, power, initial_power, kind, mock, lastMock,
                   emu, cl, calls, lastCtl, fault, render, thermoVars,
                   houseVars>>

\* state.lock()
HandlerLock(c) ==
    /\ conn[c].hpc = "wantlock"
    /\ lock = 0
    /\ lock' = c
    /\ conn' = [conn EXCEPT ![c].hpc = "locked"]
    /\ UNCHANGED <<init_state, power, initial_power, kind, mock, lastMock,
                   emu, cl, calls, lastCtl, fault, render, thermoVars,
                   houseVars>>

\* the match arm: the state is read or written and the reply computed
HandlerMatch(c) ==
    /\ conn[c].hpc = "locked"
    /\ emu' = MatchState(conn[c].cmd, emu)
    /\ conn' = [conn EXCEPT ![c].hpc = "reply",
                            ![c].pre = Some(emu),
                            ![c].resp = MatchReply(conn[c].cmd, emu)]
    /\ UNCHANGED <<init_state, power, initial_power, kind, mock, lastMock,
                   lock, cl, calls, lastCtl, fault, render, thermoVars,
                   houseVars>>

\* a variant that serves the next request of the same connection
HandlerReplyKeepAlive(c) ==
    /\ conn[c].hpc = "reply"
    /\ conn' = [conn EXCEPT ![c] =
                  [NoConn EXCEPT !.hpc = "reading", !.out = conn[c].resp]]
    /\ lock' = IF lock = c THEN 0 ELSE lock
    /\ UNCHANGED <<init_state, power, initial_power, kind, mock, lastMock,
                   emu, cl, calls, lastCtl, fault, render, thermoVars,
                   houseVars>>

\* write_all(reply) succeeds; the guard and then the stream are dropped and
\* the handler thread ends
HandlerReply(c) ==
    /\ conn[c].hpc = "reply"
    /\ conn' = [conn EXCEPT ![c] =
                  [NoConn EXCEPT !.hpc = "closed", !.out = conn[c].resp]]
    /\ lock' = IF lock = c THEN 0 ELSE lock
    /\ UNCHANGED <<init_state, power, initial_power, kind, mock, lastMock,
                   emu, cl, calls, lastCtl, fault, render, thermoVars,
                   houseVars>>

\* write_all(reply) fails (`let _ =`); the guard and the stream are dropped
\* and the handler thread ends
HandlerReplyFail(c) ==
    /\ conn[c].hpc = "reply"
    /\ conn' = [conn EXCEPT ![c] = [NoConn EXCEPT !.hpc = "closed"]]
    /\ lock' = IF lock = c THEN 0 ELSE lock
    /\ Faulted(c)
    /\ UNCHANGED <<init_state, power, initial_power, kind, mock, lastMock,
                   emu, cl, calls, lastCtl, render, thermoVars, houseVars>>

NextSock ==
    \/ \E c \in Clients, op \in Ops : MockCall(c, op)
    \/ \E c \in Clients, op \in Ops : Call(c, op)
    \/ \E c \in Clients, bytes \in RawRequests : RawCall(c, bytes)
    \/ \E c \in Clients : Connect(c)
    \/ \E c \in Clients : ConnectFail(c)
    \/ \E c \in Clients : Write(c)
    \/ \E c \in Clients : WriteFail(c)
    \/ \E c \in Clients : ClientRead(c)
    \/ \E c \in Clients : ClientReadFail(c)
    \/ \E c \in Clients : Accept(c)
    \/ \E c \in Clients : AcceptFail(c)
    \/ \E c \in Clients : HandlerRead(c)
    \/ \E c \in Clients : HandlerReadFail(c)
    \/ \E c \in Clients : HandlerLock(c)
    \/ \E c \in Clients : HandlerMatch(c)
    \/ \E c \in Clients : HandlerReply(c)
    \/ \E c \in Clients : HandlerReplyFail(c)

(***************************************************************************)
(* Display for SmartSocket: the summary is written from is_on() and then   *)
(* current_power(), two operations of the driver.  A client of kind        *)
(* "mock_show" or "tcp_show" owns a SmartSocket over the named driver and  *)
(* renders it.                                                             *)
(***************************************************************************)
\* the parts of the summary that depend on the backend: the word for the
\* state and the power as {:.1}
SmartSocket_fmt(on, watts) ==
    [state |-> IF on THEN "on" ELSE "off", power |-> F32Fixed1(watts)]

\* over the MockSocketDriver: self.is_on()
MockFmtIsOn(c) ==
    /\ kind[c] = "mock_show"
    /\ render[c].st \in {"none", "done"}
    /\ TotalCalls < MaxCalls
    /\ calls' = [calls EXCEPT ![c] = @ + 1]
    /\ render' = [render EXCEPT ![c] =
                    [st |-> "current_power",
                     on |-> SmartSocket_is_on(MockSocketDriver_is_on(mock)).v]]
    /\ UNCHANGED <<init_state, power, initial_power, kind, mock, lastMock,
                   emu, lock, cl, conn, lastCtl, fault, thermoVars,
                   houseVars>>

\* over the MockSocketDriver: self.current_power(), and the write
MockFmtPower(c) ==
    /\ kind[c] = "mock_show"
    /\ render[c].st = "current_power"
    /\ LET w == SmartSocket_current_power(
                   MockSocketDriver_current_power(mock)).v
       IN render' = [render EXCEPT ![c] =
                       [st |-> "done",
                        text |-> SmartSocket_fmt(render[c].on, w)]]
    /\ UNCHANGED <<init_state, power, initial_power, kind, mock, lastMock,
                   emu, lock, cl, conn, calls, lastCtl, fault, thermoVars,
                   houseVars>>

\* over the TcpSocketDriver: self.is_on() is entered
FmtIsOn(c) ==
    /\ kind[c] = "tcp_show"
    /\ render[c].st \in {"none", "done"}
    /\ cl[c].pc = "idle"
    /\ conn[c].hpc \in {"none", "closed", "aborted"}
    /\ TotalCalls < MaxCalls
    /\ calls' = [calls EXCEPT ![c] = @ + 1]
    /\ cl' = [cl EXCEPT ![c] =
                [pc |-> "connect", op |-> "is_on", req |-> CmdBytes("is_on"),
                 res |-> NoRes]]
    /\ conn' = [conn EXCEPT ![c] = NoConn]
    /\ render' = [render EXCEPT ![c] = [st |-> "is_on"]]
    /\ UNCHANGED <<init_state, power, initial_power, kind, mock, lastMock,
                   emu, lock, lastCtl, fault, thermoVars, houseVars>>

\* over the TcpSocketDriver: self.is_on() has returned and
\* self.current_power() is entered
FmtPower(c) ==
    /\ kind[c] = "tcp_show"
    /\ render[c].st = "is_on"
    /\ cl[c].pc = "idle"
    /\ cl[c].res.op = "is_on"
    /\ conn[c].hpc \in {"none", "closed", "aborted"}
    /\ cl' = [cl EXCEPT ![c] =
                [pc |-> "connect", op |-> "current_power",
                 req |-> CmdBytes("current_power"), res |-> NoRes]]
    /\ conn' = [conn EXCEPT ![c] = NoConn]
    /\ render' = [render EXCEPT ![c] =
                    [st |-> "current_power", on |-> cl[c].res.fac.v]]
    /\ UNCHANGED <<init_state, power, initial_power, kind, mock, lastMock,
                   emu, lock, calls, lastCtl, fault, thermoVars, houseVars>>

\* over the TcpSocketDriver: self.current_power() has returned, and the
\* write
FmtEnd(c) ==
    /\ kind[c] = "tcp_show"
    /\ render[c].st = "current_power"
    /\ cl[c].pc = "idle"
    /\ cl[c].res.op = "current_power"
    /\ render' = [render EXCEPT ![c] =
                    [st |-> "done",
                     text |-> SmartSocket_fmt(render[c].on, cl[c].res.fac.v)]]
    /\ UNCHANGED <<init_state, power, initial_power, kind, mock, lastMock,
                   emu, lock, cl, conn, calls, lastCtl, fault, thermoVars,
                   houseVars>>

(***************************************************************************)
(* Room and SmartHouse: HashMaps from a key to a device or a room.  A map  *)
(* is a function from the keys to None or Some(value).  A device is its    *)
(* name and its variant; two devices may bear one name.                    *)
(***************************************************************************)
RoomKeys == {"kitchen", "study"}

DevKeys == {"S1", "T1"}

Devices ==
    {[name |-> "S1", kind |-> "Socket"],
     [name |-> "T1", kind |-> "Thermometer"],
     [name |-> "S1", kind |-> "Thermometer"]}

NoDevices == [k \in DevKeys |-> None]

EmptyHouse == [k \in RoomKeys |-> None]

SmartDevice_name(device) == device.name

Room_new(name, devices) == [name |-> name, devices |-> devices]

Room_name(room) == room.name

\* a variant that keeps the device already stored under the name
Room_add_device_keep(room, device) ==
    IF room.devices[SmartDevice_name(device)].some THEN room
    ELSE [room EXCEPT !.devices[SmartDevice_name(device)] = Some(device)]

Room_add_device(room, device) ==
    [room EXCEPT !.devices[SmartDevice_name(device)] = Some(device)]

Room_remove_device(room, device_name) ==
    [self |-> [room EXCEPT !.devices[device_name] = None],
     ret |-> room.devices[device_name]]

Room_get_device(room, key) == room.devices[key]

Room_get_device_mut(room, key) == room.devices[key]

SmartHouse_new(rooms) == rooms

SmartHouse_get_room(rooms, key) == rooms[key]

SmartHouse_get_room_mut(rooms, key) == rooms[key]

SmartHouse_add_room(rooms, room) ==
    [rooms EXCEPT ![Room_name(room)] = Some(room)]

SmartHouse_remove_room(rooms, key) ==
    [self |-> [rooms EXCEPT ![key] = None], ret |-> rooms[key]]

RoomNotFound(room) == [e |-> "RoomNotFound", room |-> room]

DeviceNotFound(room, device) ==
    [e |-> "DeviceNotFound", room |-> room, device |-> device]

\* a variant that reports a missing device as a missing room
SmartHouse_get_device_flat(rooms, room_name, device_name) ==
    IF rooms[room_name].some /\ rooms[room_name].v.devices[device_name].some
    THEN Ok(rooms[room_name].v.devices[device_name].v)
    ELSE Err(RoomNotFound(room_name))

SmartHouse_get_device(rooms, room_name, device_name) ==
    IF ~rooms[room_name].some THEN Err(RoomNotFound(room_name))
    ELSE IF ~rooms[room_name].v.devices[device_name].some
         THEN Err(DeviceNotFound(room_name, device_name))
         ELSE Ok(rooms[room_name].v.devices[device_name].v)

SmartHouse_get_device_mut(rooms, room_name, device_name) ==
    IF ~rooms[room_name].some THEN Err(RoomNotFound(room_name))
    ELSE IF ~rooms[room_name].v.devices[device_name].some
         THEN Err(DeviceNotFound(room_name, device_name))
         ELSE Ok(rooms[room_name].v.devices[device_name].v)

\* rooms as callers build them: Room::new with an empty map, and the room!
\* macro, which stores a device under any key
NewRooms ==
    {Room_new(n, NoDevices) : n \in RoomKeys}
    \cup {Room_new("study", [NoDevices EXCEPT ![k] = Some(d)]) :
            k \in DevKeys, d \in Devices}

\* houses as callers build them: SmartHouse::new with an empty map or with
\* a room stored under a key that is not its name
NewHouses ==
    {SmartHouse_new(EmptyHouse),
     SmartHouse_new([EmptyHouse EXCEPT
                       !["kitchen"] = Some(Room_new("study", NoDevices))])}

\* the record of an operation: its name, the room key and the device key or
\* value it was given, what it returned and the house it was called on
HRes(op, room, arg, ret) ==
    [op |-> op, room |-> room, arg |-> arg, ret |-> ret, pre |-> house]

InitHouseIdle ==
    /\ house = SmartHouse_new(EmptyHouse)
    /\ hres = NoRes

\* house.add_room(room)
AddRoom(room) ==
    /\ house' = SmartHouse_add_room(house, room)
    /\ hres' = HRes("add_room", Room_name(room), room, "unit")
    /\ UNCHANGED <<sockVars, thermoVars>>

\* house.remove_room(key)
RemoveRoom(key) ==
    /\ house' = SmartHouse_remove_room(house, key).self
    /\ hres' = HRes("remove_room", key, "none",
                    SmartHouse_remove_room(house, key).ret)
    /\ UNCHANGED <<sockVars, thermoVars>>

\* house.get_room(key)
GetRoom(key) ==
    /\ hres' = HRes("get_room", key, "none", SmartHouse_get_room(house, key))
    /\ UNCHANGED <<house, sockVars, thermoVars>>

\* house.get_room_mut(key) and, on the room it yields, add_device(device)
AddDevice(key, device) ==
    /\ SmartHouse_get_room_mut(house, key).some
    /\ house' = [house EXCEPT ![key] =
                   Some(Room_add_device(
                          SmartHouse_get_room_mut(house, key).v, device))]
    /\ hres' = HRes("add_device", key, device, "unit")
    /\ UNCHANGED <<sockVars, thermoVars>>

\* house.get_room_mut(key) and, on the room it yields, remove_device(k)
RemoveDevice(key, k) ==
    /\ SmartHouse_get_room_mut(house, key).some
    /\ LET r == Room_remove_device(SmartHouse_get_room_mut(house, key).v, k)
       IN /\ house' = [house EXCEPT ![key] = Some(r.self)]
          /\ hres' = HRes("remove_device", key, k, r.ret)
    /\ UNCHANGED <<sockVars, thermoVars>>

\* house.get_room(key) and, on the room it yields, get_device(k)
GetDevice(key, k) ==
    /\ SmartHouse_get_room(house, key).some
    /\ hres' = HRes("room_get_device", key, k,
                    Room_get_device(SmartHouse_get_room(house, key).v, k))
    /\ UNCHANGED <<house, sockVars, thermoVars>>

\* house.get_room_mut(key) and, on the room it yields, get_device_mut(k)
GetDeviceMut(key, k) ==
    /\ SmartHouse_get_room_mut(house, key).some
    /\ hres' = HRes("room_get_device_mut", key, k,
                    Room_get_device_mut(
                      SmartHouse_get_room_mut(house, key).v, k))
    /\ UNCHANGED <<house, sockVars, thermoVars>>

\* house.get_device(room_name, device_name)
HouseGetDevice(room_name, device_name) ==
    /\ hres' = HRes("get_device", room_name, device_name,
                    SmartHouse_get_device(house, room_name, device_name))
    /\ UNCHANGED <<house, sockVars, thermoVars>>

\* house.get_device_mut(room_name, device_name)
HouseGetDeviceMut(room_name, device_name) ==
    /\ hres' = HRes("get_device_mut", room_name, device_name,
                    SmartHouse_get_device_mut(house, room_name, device_name))
    /\ UNCHANGED <<house, sockVars, thermoVars>>

NextHouse ==
    \/ \E room \in NewRooms : AddRoom(room)
    \/ \E key \in RoomKeys : RemoveRoom(key)
    \/ \E key \in RoomKeys : GetRoom(key)
    \/ \E key \in RoomKeys, device \in Devices : AddDevice(key, device)
    \/ \E key \in RoomKeys, k \in DevKeys : RemoveDevice(key, k)
    \/ \E key \in RoomKeys, k \in DevKeys : GetDevice(key, k)
    \/ \E key \in RoomKeys, k \in DevKeys : GetDeviceMut(key, k)
    \/ \E r \in RoomKeys, d \in DevKeys : HouseGetDevice(r, d)
    \/ \E r \in RoomKeys, d \in DevKeys : HouseGetDeviceMut(r, d)

\* the socket side in any configuration, the thermometer and the house at
\* rest
InitSocket == InitSock /\ InitThermo /\ InitHouseIdle

SpecSocket == InitSocket /\ [][NextSock]_vars

\* the handler threads are scheduled: a handler that can take the lock,
\* run its match arm or finish its write_all does so in the end.  Nothing
\* is assumed of the clients, which may stop anywhere, nor of the arrival
\* of a handler's input.
HandlerFairness ==
    \A c \in Clients :
        /\ WF_vars(HandlerLock(c))
        /\ WF_vars(HandlerMatch(c))
        /\ WF_vars(HandlerReply(c) \/ HandlerReplyFail(c))

SpecSocketFair == InitSocket /\ [][NextSock]_vars /\ HandlerFairness

\* the socket side at rest: no client thread
InitSockIdle ==
    /\ init_state = FALSE
    /\ power = 150000
    /\ initial_power = 150000
    /\ kind = [c \in Clients |-> "none"]
    /\ InitSockState

InitThermometer == InitSockIdle /\ InitThermo /\ InitHouseIdle

SpecThermo == InitThermometer /\ [][NextThermo]_vars

(***************************************************************************)
(* main: both emulators running, one SmartSocket over a TcpSocketDriver    *)
(* and one SmartThermometer over a UdpThermometerDriver, one owner thread. *)
(***************************************************************************)
InitMain ==
    /\ init_state = FALSE
    /\ power = 150000
    /\ initial_power = 150000
    /\ kind = [c \in Clients |-> IF c = 1 THEN "tcp" ELSE "none"]
    /\ InitSockState
    /\ InitThermo
    /\ InitHouseIdle

NextMain ==
    \/ \E c \in Clients, op \in Ops : Call(c, op)
    \/ \E c \in Clients : Connect(c)
    \/ \E c \in Clients : ConnectFail(c)
    \/ \E c \in Clients : Write(c)
    \/ \E c \in Clients : WriteFail(c)
    \/ \E c \in Clients : ClientRead(c)
    \/ \E c \in Clients : ClientReadFail(c)
    \/ \E c \in Clients : Accept(c)
    \/ \E c \in Clients : AcceptFail(c)
    \/ \E c \in Clients : HandlerRead(c)
    \/ \E c \in Clients : HandlerReadFail(c)
    \/ \E c \in Clients : HandlerLock(c)
    \/ \E c \in Clients : HandlerMatch(c)
    \/ \E c \in Clients : HandlerReply(c)
    \/ \E c \in Clients : HandlerReplyFail(c)
    \/ ListenerBind
    \/ ListenerBindFail
    \/ \E t \in EmuTemps : EmulatorSend(t)
    \/ ListenerRecv
    \/ ThermoQuery

SpecMain == InitMain /\ [][NextMain]_vars

(***************************************************************************)
(* TcpSocketDriver against any peer: every client a SmartSocket over a     *)
(* TcpSocketDriver, whose connection is served by the emulator or by some  *)
(* other server listening at the driver's address.                         *)
(***************************************************************************)
\* what a server other than the emulator may answer: the emulator's
\* replies wrapped in white space or in other letters, and other text
PeerReplies ==
    {<<" ", "O", "N", "\n">>, <<"o", "n">>, <<"O", "N", "!">>, T_ERR,
     <<" ", "7", ".", "5", "\n">>, <<"7", ".", "5", "W">>}

\* the server at the driver's address accepts the connection, writes text
\* and closes
PeerAnswer(c, text) ==
    /\ conn[c].hpc = "backlog"
    /\ conn' = [conn EXCEPT ![c] =
                  [NoConn EXCEPT !.hpc = "closed", !.out = text]]
    /\ UNCHANGED <<init_state, power, initial_power, kind, mock, lastMock,
                   emu, lock, cl, calls, lastCtl, fault, render, thermoVars,
                   houseVars>>

InitDriver ==
    /\ init_state = FALSE
    /\ power = 150000
    /\ initial_power \in Watts
    /\ kind = [c \in Clients |-> "tcp"]
    /\ InitSockState
    /\ InitThermo
    /\ InitHouseIdle

NextDriver ==
    \/ \E c \in Clients, op \in Ops : Call(c, op)
    \/ \E c \in Clients : Connect(c)
    \/ \E c \in Clients : ConnectFail(c)
    \/ \E c \in Clients : Write(c)
    \/ \E c \in Clients : WriteFail(c)
    \/ \E c \in Clients : ClientRead(c)
    \/ \E c \in Clients : ClientReadFail(c)
    \/ \E c \in Clients : Accept(c)
    \/ \E c \in Clients : AcceptFail(c)
    \/ \E c \in Clients : HandlerRead(c)
    \/ \E c \in Clients : HandlerReadFail(c)
    \/ \E c \in Clients : HandlerLock(c)
    \/ \E c \in Clients : HandlerMatch(c)
    \/ \E c \in Clients : HandlerReply(c)
    \/ \E c \in Clients : HandlerReplyFail(c)
    \/ \E c \in Clients, text \in PeerReplies : PeerAnswer(c, text)

SpecDriver == InitDriver /\ [][NextDriver]_vars

(***************************************************************************)
(* A SmartSocket being rendered while the other clients, owners of         *)
(* SmartSockets over the same backend, use theirs.                         *)
(***************************************************************************)
InitDisplay ==
    /\ init_state \in BOOLEAN
    /\ power = 150000
    /\ initial_power = 150000
    /\ \E b \in {"mock", "tcp"} :
          kind = [c \in Clients |-> IF c = 1 THEN b \o "_show" ELSE b]
    /\ kind[1] = "tcp_show" => init_state = FALSE
    /\ InitSockState
    /\ InitThermo
    /\ InitHouseIdle

NextDisplay ==
    \/ \E c \in Clients : MockFmtIsOn(c)
    \/ \E c \in Clients : MockFmtPower(c)
    \/ \E c \in Clients : FmtIsOn(c)
    \/ \E c \in Clients : FmtPower(c)
    \/ \E c \in Clients : FmtEnd(c)
    \/ \E c \in Clients, op \in Ops : MockCall(c, op)
    \/ \E c \in Clients, op \in Ops : Call(c, op)
    \/ \E c \in Clients : Connect(c)
    \/ \E c \in Clients : ConnectFail(c)
    \/ \E c \in Clients : Write(c)
    \/ \E c \in Clients : WriteFail(c)
    \/ \E c \in Clients : ClientRead(c)
    \/ \E c \in Clients : ClientReadFail(c)
    \/ \E c \in Clients : Accept(c)
    \/ \E c \in Clients : AcceptFail(c)
    \/ \E c \in Clients : HandlerRead(c)
    \/ \E c \in Clients : HandlerReadFail(c)
    \/ \E c \in Clients : HandlerLock(c)
    \/ \E c \in Clients : HandlerMatch(c)
    \/ \E c \in Clients : HandlerReply(c)
    \/ \E c \in Clients : HandlerReplyFail(c)

SpecDisplay == InitDisplay /\ [][NextDisplay]_vars

(***************************************************************************)
(* A SmartHouse on its own: sockets and thermometer at rest.               *)
(***************************************************************************)
InitHouse ==
    /\ InitSockIdle
    /\ InitThermo
    /\ house \in NewHouses
    /\ hres = NoRes

SpecHouse == InitHouse /\ [][NextHouse]_vars

(***************************************************************************)
(* Vocabulary of the claims.                                               *)
(***************************************************************************)
\* the backend a client's SmartSocket talks to, and its construction
Backend(c) == IF kind[c] = "mock" THEN mock ELSE emu

Wattage(c) == IF kind[c] = "mock" THEN power ELSE initial_power

StartsOn(c) == IF kind[c] = "mock" THEN init_state ELSE FALSE

SameBackend(c, d) == (kind[c] = "mock") = (kind[d] = "mock")

\* c is the only caller of its backend so far
Solo(c) == \A d \in Clients \ {c} : SameBackend(c, d) => calls[d] = 0

IsOwner(c) == kind[c] \in {"mock", "tcp"}

\* the wattages as the emulator's POWER reply writes them
WattText(w) ==
    CASE w = 150000 -> <<"1", "5", "0", "0">>
      [] w = 1050 -> <<"1", "0", ".", "5">>
      [] w = 0 -> <<"0">>

\* the first BufSize bytes of the request are the text t, with nothing but
\* white space before and after it
Wrapped(bytes, t) ==
    LET b == Take(bytes, BufSize)
    IN \E i \in 0..Len(b) :
          /\ i + Len(t) <= Len(b)
          /\ \A k \in 1..i : IsWhite(b[k])
          /\ \A k \in 1..Len(t) : b[i + k] = t[k]
          /\ \A k \in (i + Len(t) + 1)..Len(b) : IsWhite(b[k])

Commands == {T_ON, T_OFF, T_STATE, T_POWER}

\* the handler of c's connection has matched its request and still holds
\* the lock: emu is the state its match left
Matched(c) == conn[c].hpc = "reply"

(***************************************************************************)
(* C1: for one caller of a MockSocketDriver, or of a TcpSocketDriver whose *)
(* round trips with the emulator all completed and with no other client,   *)
(* after any non-empty sequence of turn_on/turn_off calls is_on() returns  *)
(* true iff the last call was turn_on, and the backend state is fixed by   *)
(* the last call alone (so a repeated call leaves what a single one        *)
(* leaves).                                                                *)
(***************************************************************************)
C1_LastWriteWins ==
    \A c \in Clients :
        (IsOwner(c) /\ Solo(c) /\ ~fault /\ lastCtl[c] # "none")
        => /\ cl[c].res.op = "is_on"
              => /\ cl[c].res.drv = Ok(lastCtl[c] = "turn_on")
                 /\ cl[c].res.fac = Ret(lastCtl[c] = "turn_on")
           /\ cl[c].pc = "idle"
              => Backend(c) = [on |-> lastCtl[c] = "turn_on",
                               power |-> Wattage(c)]

C1_Witness ==
    \E c \in Clients :
        /\ kind[c] = "tcp" /\ Solo(c) /\ ~fault
        /\ calls[c] = 3
        /\ lastCtl[c] = "turn_on"
        /\ cl[c].res.op = "is_on"
        /\ cl[c].res.fac = Ret(TRUE)

(***************************************************************************)
(* C2: under the same conditions current_power() returns the configured    *)
(* wattage when the most recent turn_on/turn_off call was turn_on, and 0.0 *)
(* when it was turn_off or when there was none and the backend started     *)
(* off.                                                                    *)
(***************************************************************************)
C2_PowerFollowsLastCall ==
    \A c \in Clients :
        (IsOwner(c) /\ Solo(c) /\ ~fault /\ cl[c].res.op = "current_power")
        => /\ lastCtl[c] = "turn_on"
              => /\ cl[c].res.drv = Ok(Wattage(c))
                 /\ cl[c].res.fac = Ret(Wattage(c))
           /\ (lastCtl[c] = "turn_off" \/ (lastCtl[c] = "none" /\ ~StartsOn(c)))
              => /\ cl[c].res.drv = Ok(0)
                 /\ cl[c].res.fac = Ret(0)

C2_Witness ==
    \E c \in Clients :
        /\ kind[c] = "tcp" /\ Solo(c) /\ ~fault
        /\ initial_power = 150000
        /\ lastCtl[c] = "turn_on"
        /\ cl[c].res.op = "current_power"
        /\ cl[c].res.fac = Ret(150000)

(***************************************************************************)
(* C3: with concurrent clients, a handler reads or writes the state tuple  *)
(* only while it holds the lock, at most one handler does at a time, a     *)
(* POWER reply is the wattage or 0 and agrees with the powered flag as it  *)
(* stands while the lock is held, and what a client's current_power()      *)
(* decodes is the wattage or 0.                                            *)
(***************************************************************************)
C3_NoTornRead ==
    /\ \A c \in Clients : conn[c].hpc \in {"locked", "reply"} => lock = c
    /\ \A c \in Clients :
          (Matched(c) /\ conn[c].cmd = T_POWER)
          => /\ conn[c].resp \in {WattText(initial_power), WattText(0)}
             /\ conn[c].resp = WattText(IF emu.on THEN initial_power ELSE 0)
    /\ \A c \in Clients :
          (cl[c].res.op = "current_power" /\ kind[c] = "tcp" /\ cl[c].res.drv.ok)
          => cl[c].res.drv.v \in {initial_power, 0}

C3_Witness ==
    \E c, d \in Clients :
        /\ c # d
        /\ Matched(c) /\ conn[c].cmd = T_POWER
        /\ conn[c].resp = WattText(initial_power)
        /\ conn[d].hpc = "wantlock" /\ conn[d].cmd = T_OFF

(***************************************************************************)
(* C4 as stated: a request that is not one of the four literal commands is *)
(* answered ERR.                                                           *)
(***************************************************************************)
C4_AnyOtherBytesErr ==
    \A c \in Clients :
        (Matched(c) /\ conn[c].inbuf \notin Commands) => conn[c].resp = T_ERR

(***************************************************************************)
(* C4: the reply is fixed by the request bytes and the stored state, a     *)
(* request counting as a command when its first 64 bytes are the command's *)
(* text with nothing but white space around it: ON sets powered and        *)
(* replies OK, OFF clears it and replies OK, STATE replies ON or OFF,      *)
(* POWER replies the wattage or 0 as decimal text, and every other request *)
(* is answered ERR.                                                        *)
(***************************************************************************)
C4_ReplyByCommand ==
    \A c \in Clients :
        Matched(c) =>
            LET req == conn[c].inbuf
                pre == conn[c].pre.v
            IN /\ Wrapped(req, T_ON)
                  => conn[c].resp = T_OK /\ emu = [pre EXCEPT !.on = TRUE]
               /\ Wrapped(req, T_OFF)
                  => conn[c].resp = T_OK /\ emu = [pre EXCEPT !.on = FALSE]
               /\ Wrapped(req, T_STATE)
                  => conn[c].resp = (IF pre.on THEN T_ON ELSE T_OFF)
               /\ Wrapped(req, T_POWER)
                  => conn[c].resp = WattText(IF pre.on THEN pre.power ELSE 0)
               /\ (\A t \in Commands : ~Wrapped(req, t))
                  => conn[c].resp = T_ERR

C4_Witness ==
    \E c \in Clients :
        /\ Matched(c)
        /\ conn[c].inbuf = <<"O", "N", "\n">>
        /\ conn[c].resp = T_OK
        /\ ~conn[c].pre.v.on /\ emu.on

(***************************************************************************)
(* C5: a request the emulator does not take for a command is answered      *)
(* exactly ERR and leaves the stored state as it was; STATE and POWER      *)
(* leave it as it was too.                                                 *)
(***************************************************************************)
C5_UnknownLeavesState ==
    \A c \in Clients :
        LET req == conn[c].inbuf
        IN /\ (Matched(c) /\ \A t \in Commands : ~Wrapped(req, t))
              => conn[c].resp = T_ERR /\ emu = conn[c].pre.v
           /\ (Matched(c) /\ (Wrapped(req, T_STATE) \/ Wrapped(req, T_POWER)))
              => emu = conn[c].pre.v
           /\ (cl[c].res.op = "raw" /\ cl[c].res.drv.ok
                 /\ (\A t \in Commands : ~Wrapped(cl[c].res.req, t)))
              => cl[c].res.drv.v \in {T_ERR, <<>>}

C5_Witness ==
    \E c \in Clients :
        /\ Matched(c)
        /\ conn[c].inbuf = <<"o", "n">>
        /\ conn[c].resp = T_ERR
        /\ conn[c].pre.v.on /\ emu.on

(***************************************************************************)
(* C6: SmartSocket.turn_on()/turn_off() over the TcpSocketDriver return    *)
(* normally only when the backend confirmed the change: the handler        *)
(* applied the command and its reply OK reached the driver.                *)
(***************************************************************************)
C6_ReturnMeansConfirmed ==
    \A c \in Clients :
        (kind[c] = "tcp" /\ cl[c].res.op \in CtlOps
           /\ cl[c].res.fac.kind = "ret")
        => conn[c].hpc = "closed" /\ conn[c].out = T_OK

(***************************************************************************)
(* Vocabulary of the thermometer claims.                                   *)
(***************************************************************************)
\* what the most recent reading among the datagrams processed was meant to
\* be, None when none of them was a reading
RECURSIVE LastReading(_)
LastReading(seq) ==
    IF seq = <<>> THEN None
    ELSE IF seq[Len(seq)].some THEN seq[Len(seq)]
    ELSE LastReading(SubSeq(seq, 1, Len(seq) - 1))

\* every reading a datagram of the model carries
Readings == EmuTemps \cup {d.val.v : d \in {e \in ForeignPayloads : e.val.some}}

Queried == thermo.op # "none"

C9_ReadsNeverFault ==
    /\ \A c \in Clients :
          /\ cl[c].res.op = "is_on"
             => /\ cl[c].pc # "panicked"
                /\ cl[c].res.fac = Ret(IF cl[c].res.drv.ok
                                       THEN cl[c].res.drv.v ELSE FALSE)
          /\ cl[c].res.op = "current_power"
             => /\ cl[c].pc # "panicked"
                /\ cl[c].res.fac = Ret(IF cl[c].res.drv.ok
                                       THEN cl[c].res.drv.v ELSE 0)
    /\ Queried => thermo.fac = (IF thermo.drv.ok THEN thermo.drv.v ELSE 0)

C9_Witness ==
    /\ \E c \in Clients :
          /\ cl[c].res.op = "is_on"
          /\ ~cl[c].res.drv.ok
          /\ cl[c].res.fac = Ret(FALSE)
    /\ Queried /\ ~thermo.drv.ok /\ thermo.fac = 0

(***************************************************************************)
(* C10: what the owner of a SmartThermometer sees while no valid datagram  *)
(* has been processed differs from what it sees for any temperature.       *)
(***************************************************************************)
C10_UnavailableIsDistinct ==
    (Queried /\ ~LastReading(thermo.after).some)
    => /\ thermo.fac \notin Readings
       /\ thermo.shown \notin {SmartThermometer_fmt(t) : t \in Readings}

(***************************************************************************)
(* Vocabulary of C11.                                                      *)
(***************************************************************************)
\* the flag the clones share, by the history of the calls: what the latest
\* turn_on/turn_off through any clone set, the constructor's argument when
\* there was none
SharedOn == IF lastMock = "none" THEN init_state ELSE lastMock = "turn_on"

\* this step is a call of client c
CallOf(c) == calls'[c] = calls[c] + 1

(***************************************************************************)
(* C11: an is_on() or current_power() of a SmartSocket over any clone of   *)
(* the MockSocketDriver returns the state as the latest turn_on/turn_off   *)
(* through any clone left it (as constructed when there was none): the     *)
(* flag, and the wattage when the flag is set and 0.0 otherwise.           *)
(***************************************************************************)
C11_ClonesShareState ==
    [][\A c \in Clients :
          (kind[c] = "mock" /\ CallOf(c))
          => /\ cl'[c].res.op = "is_on"
                => /\ cl'[c].res.drv = Ok(SharedOn)
                   /\ cl'[c].res.fac = Ret(SharedOn)
             /\ cl'[c].res.op = "current_power"
                => /\ cl'[c].res.drv = Ok(IF SharedOn THEN power ELSE 0)
                   /\ cl'[c].res.fac = Ret(IF SharedOn THEN power ELSE 0)
             /\ cl'[c].res.op \in ReadOps => mock' = mock]_vars

C11_Witness ==
    \E c, d \in Clients :
        /\ c # d /\ kind[c] = "mock" /\ kind[d] = "mock"
        /\ ~init_state
        /\ lastCtl[c] = "turn_off" /\ lastCtl[d] = "turn_on"
        /\ cl[c].res.op = "is_on"
        /\ cl[c].res.fac = Ret(TRUE)

(***************************************************************************)
(* Vocabulary of the containment claims.                                   *)
(***************************************************************************)
\* the map m holds something under key k
Holds(m, k) == m[k].some

\* maps m and n hold the same under every key but k
SameBut(m, n, keys, k) == \A j \in keys \ {k} : m[j] = n[j]

(***************************************************************************)
(* C12: SmartHouse.get_device and get_device_mut return RoomNotFound(room) *)
(* exactly when no room is stored under the room key, DeviceNotFound{room, *)
(* device} exactly when a room is stored there that holds nothing under    *)
(* the device key, and otherwise the device stored there; the house is     *)
(* after the lookup what it was before.                                    *)
(***************************************************************************)
C12_LookupErrors ==
    hres.op \in {"get_device", "get_device_mut"}
    => LET r == hres.room
           d == hres.arg
           noRoom == ~Holds(hres.pre, r)
           noDevice == Holds(hres.pre, r) /\ ~Holds(hres.pre[r].v.devices, d)
       IN /\ house = hres.pre
          /\ noRoom <=> hres.ret = Err([e |-> "RoomNotFound", room |-> r])
          /\ noDevice
             <=> hres.ret = Err([e |-> "DeviceNotFound",
                                 room |-> r, device |-> d])
          /\ (~noRoom /\ ~noDevice) <=> hres.ret.ok
          /\ hres.ret.ok => hres.ret = Ok(hres.pre[r].v.devices[d].v)

C12_Witness ==
    /\ hres.op = "get_device_mut"
    /\ hres.ret = Err(DeviceNotFound("kitchen", "T1"))
    /\ Holds(house, "kitchen")
    /\ Holds(house["kitchen"].v.devices, "S1")
    /\ ~Holds(house, "study")

(***************************************************************************)
(* C13: after add_device(d) the room holds d under d.name(), remove_device *)
(* (k) returns what the room held under k and leaves nothing there, and    *)
(* get_device(k) returns what the room holds under k; after add_room(r)    *)
(* the house holds r under r.name(), remove_room(k) returns what the house *)
(* held under k and leaves nothing there, and get_room(k) returns what the *)
(* house holds under k.  What is stored under the other keys, and in the   *)
(* other rooms, stays as it was.                                           *)
(***************************************************************************)
C13_ContainmentByKey ==
    LET r == hres.room
        pre == hres.pre
    IN /\ hres.op = "add_device"
          => /\ Holds(house, r)
             /\ house[r].v.devices[hres.arg.name] = Some(hres.arg)
             /\ house[r].v.name = pre[r].v.name
             /\ SameBut(house[r].v.devices, pre[r].v.devices, DevKeys,
                        hres.arg.name)
             /\ SameBut(house, pre, RoomKeys, r)
       /\ hres.op = "remove_device"
          => /\ hres.ret = pre[r].v.devices[hres.arg]
             /\ Holds(house, r)
             /\ ~Holds(house[r].v.devices, hres.arg)
             /\ house[r].v.name = pre[r].v.name
             /\ SameBut(house[r].v.devices, pre[r].v.devices, DevKeys,
                        hres.arg)
             /\ SameBut(house, pre, RoomKeys, r)
       /\ hres.op \in {"room_get_device", "room_get_device_mut"}
          => /\ hres.ret = house[r].v.devices[hres.arg]
             /\ house = pre
       /\ hres.op = "add_room"
          => /\ house[hres.arg.name] = Some(hres.arg)
             /\ SameBut(house, pre, RoomKeys, hres.arg.name)
       /\ hres.op = "remove_room"
          => /\ hres.ret = pre[r]
             /\ ~Holds(house, r)
             /\ SameBut(house, pre, RoomKeys, r)
       /\ hres.op = "get_room"
          => /\ hres.ret = house[r]
             /\ house = pre

C13_Witness ==
    /\ hres.op = "remove_device"
    /\ hres.room = "study" /\ hres.arg = "S1"
    /\ hres.ret = Some([name |-> "S1", kind |-> "Thermometer"])
    /\ Holds(hres.pre["study"].v.devices, "S1")
    /\ ~Holds(house["study"].v.devices, "S1")
    /\ Holds(house["study"].v.devices, "T1")
    /\ Holds(house, "kitchen")

(***************************************************************************)
(* Vocabulary of the handler claims.                                       *)
(***************************************************************************)
\* the handler of c's connection moves from position p to position q
Moves(c, p, q) == conn[c].hpc = p /\ conn'[c].hpc = q

\* the positions a handler thread is alive in
HandlerLive == {"reading", "wantlock", "locked", "reply"}

(***************************************************************************)
(* C14: every handler is a single-command session.  Its positions follow   *)
(* one another in one order only, so it reads once, matches once and       *)
(* writes once: a handler starts at the read when its connection is        *)
(* accepted, the read is followed by the lock or, when it fails, by the    *)
(* end; the stored state changes only in the one match step of some        *)
(* handler; bytes reach the client only in the one write step that ends    *)
(* the handler, and they are the reply the match computed (nothing when    *)
(* the write fails); a failed read ends the handler with no reply and the  *)
(* state as it was; a handler that has ended does nothing more.            *)
(***************************************************************************)
C14_SingleCommandSession ==
    [][/\ \A c \in Clients :
            conn'[c].hpc # conn[c].hpc
            => \/ Moves(c, "backlog", "reading")
               \/ Moves(c, "reading", "wantlock")
               \/ Moves(c, "reading", "closed")
               \/ Moves(c, "wantlock", "locked")
               \/ Moves(c, "locked", "reply")
               \/ Moves(c, "reply", "closed")
               \/ conn[c].hpc \notin HandlerLive
       /\ emu' # emu
          => \E c \in Clients :
                /\ Moves(c, "locked", "reply")
                /\ \A d \in Clients \ {c} : conn'[d] = conn[d]
       /\ \A c \in Clients :
            conn'[c].out # conn[c].out
            => \/ Moves(c, "reply", "closed") /\ conn'[c].out = conn[c].resp
               \/ conn[c].hpc \notin HandlerLive /\ conn'[c].out = <<>>
       /\ \A c \in Clients :
            Moves(c, "reading", "closed")
            => conn'[c].out = <<>> /\ emu' = emu /\ lock' = lock
       /\ \A c \in Clients :
            conn[c].hpc = "closed"
            => \/ /\ conn'[c].hpc = "closed"
                  /\ conn'[c].out = conn[c].out
                  /\ conn'[c].resp = conn[c].resp
               \/ conn'[c] = NoConn /\ CallOf(c)]_vars

C14_Witness ==
    \E c, d \in Clients :
        /\ c # d
        /\ conn[c].hpc = "closed" /\ conn[c].out = T_OK
        /\ cl[c].req = T_ON /\ emu.on
        /\ conn[d].hpc = "closed" /\ conn[d].out = <<>>
        /\ cl[d].pc = "read" /\ cl[d].req = T_OFF

(***************************************************************************)
(* Vocabulary of C15.                                                      *)
(***************************************************************************)
\* the replies that read ON once the white space around them is gone
SaysOn == {T_ON, <<" ", "O", "N", "\n">>}

\* the replies that are a number once the white space around them is gone,
\* with the number (in hundredths)
SaysPower ==
    {<<<<"0">>, 0>>, <<<<"1", "5", "0", "0">>, 150000>>,
     <<<<"1", "0", ".", "5">>, 1050>>, <<<<" ", "7", ".", "5", "\n">>, 750>>}

\* client c leaves position p in this step
Leaves(c, p) == cl[c].pc = p /\ cl'[c].pc # p

\* client c's call returns in this step
Returns(c) == cl[c].pc \notin {"idle", "panicked"}
              /\ cl'[c].pc \in {"idle", "panicked"}

\* what the finished operations of c made of the reply
C15_Decoding ==
    \A c \in Clients :
        LET res == cl[c].res
            reply == conn[c].out
        IN /\ res.op = "is_on"
              => /\ res.drv \in {Ok(TRUE), Ok(FALSE), Err("io")}
                 /\ res.drv.ok
                    => /\ conn[c].hpc = "closed"
                       /\ res.drv.v = (reply \in SaysOn)
           /\ res.op = "current_power"
              => /\ res.drv.ok
                    => /\ conn[c].hpc = "closed"
                       /\ <<reply, res.drv.v>> \in SaysPower
                 /\ ~res.drv.ok
                    => /\ res.drv \in {Err("parse"), Err("io")}
                       /\ res.drv = Err("parse")
                          => /\ conn[c].hpc = "closed"
                             /\ \A p \in SaysPower : reply # p[1]

\* how an operation of c proceeds
C15_OneRoundTrip ==
    \A c \in Clients :
        /\ cl'[c].pc = "connect" /\ cl[c].pc # "connect"
           => cl[c].pc = "idle" /\ CallOf(c) /\ conn'[c] = NoConn
        /\ Leaves(c, "connect")
           => \/ /\ cl'[c].pc = "write"
                 /\ conn'[c] = [NoConn EXCEPT !.hpc = "backlog"]
              \/ Returns(c) /\ cl'[c].res.drv = Err("io")
        /\ conn'[c].hpc = "backlog" /\ conn[c].hpc # "backlog"
           => Leaves(c, "connect")
        /\ Leaves(c, "write")
           => \/ /\ cl'[c].pc = "read"
                 /\ conn'[c].inbuf = CmdBytes(cl[c].op)
              \/ Returns(c) /\ cl'[c].res.drv = Err("io")
        /\ conn'[c].inbuf # conn[c].inbuf
           => Leaves(c, "write") \/ conn'[c].inbuf = <<>>
        /\ Leaves(c, "read") => Returns(c)
        /\ Returns(c) => cl'[c].res.op = cl[c].op

(***************************************************************************)
(* C15: is_on() returns Ok(true) when the reply read up to the peer's      *)
(* close is ON with nothing but white space around it, Ok(false) for every *)
(* other reply, and an error only when the round trip failed;              *)
(* current_power() returns the number the reply is once the white space    *)
(* around it is gone, and a parse error when it is none (ERR, an empty     *)
(* reply); an operation connects once, writes its one command once, reads  *)
(* once and returns, and a connect or write that fails makes it return the *)
(* error at once.                                                          *)
(***************************************************************************)
C15_DriverDecodes == []C15_Decoding /\ [][C15_OneRoundTrip]_vars

C15_Witness ==
    \E c, d \in Clients :
        /\ cl[c].res.op = "is_on"
        /\ conn[c].out = <<" ", "O", "N", "\n">>
        /\ cl[c].res.drv = Ok(TRUE)
        /\ cl[d].res.op = "current_power"
        /\ conn[d].out = T_ERR
        /\ cl[d].res.drv = Err("parse")
        /\ cl[d].res.fac = Ret(0)

(***************************************************************************)
(* C16: no error a background task meets stops it; in particular the       *)
(* driver's listener thread, whatever its bind, receives and datagrams     *)
(* did, is alive: about to bind or polling.                                *)
(***************************************************************************)
C16_TasksNeverStop == listener \in {"bind", "poll"}

(***************************************************************************)
(* C17: in every reachable state the wattage stored by the emulator is the *)
(* initial_power it was started with and the wattage stored by the         *)
(* MockSocketDriver is the power it was constructed with, whatever         *)
(* requests and calls were processed; the emulator's flag is false until   *)
(* some client's request has been served.                                  *)
(***************************************************************************)
C17_WattageIsFixed ==
    /\ emu.power = initial_power
    /\ mock.power = power
    /\ (\A c \in Clients : kind[c] = "mock" \/ calls[c] = 0) => ~emu.on
    /\ \A c \in Clients :
          conn[c].pre.some => conn[c].pre.v.power = initial_power

C17_Witness ==
    \E c, d \in Clients :
        /\ kind[c] = "mock" /\ lastCtl[c] = "turn_on"
        /\ power = 1050 /\ mock = [on |-> TRUE, power |-> 1050]
        /\ kind[d] = "raw" /\ calls[d] = 2
        /\ Matched(d) /\ conn[d].cmd = T_OFF /\ conn[d].pre.v.on
        /\ initial_power = 1050 /\ emu = [on |-> FALSE, power |-> 1050]

(***************************************************************************)
(* C18: no step takes the cache from holding a reading to holding none,    *)
(* and once a latest_temperature() has succeeded every later one succeeds, *)
(* whatever datagrams arrive in between.                                   *)
(***************************************************************************)
C18_CacheNeverReverts ==
    [][/\ latest_temp.some => latest_temp'.some
       /\ (Queried /\ thermo.drv.ok) => thermo'.drv.ok]_vars

C18_Witness ==
    /\ Queried /\ thermo.drv.ok
    /\ Len(thermo.after) = 3
    /\ thermo.after[1].some
    /\ ~thermo.after[2].some /\ ~thermo.after[3].some
    /\ latest_temp = thermo.after[1]

(***************************************************************************)
(* Vocabulary of C19.                                                      *)
(***************************************************************************)
\* the lock is held by exactly the handlers past their lock() and before
\* their end: never by one that waits for its request or has finished
LockHeldInMatchOnly ==
    /\ lock \in Clients \cup {0}
    /\ \A c \in Clients : lock = c <=> conn[c].hpc \in {"locked", "reply"}

\* client c has connected and sent nothing, and its handler waits for it
Silent(c) ==
    /\ cl[c].pc = "write"
    /\ conn[c].hpc = "reading"
    /\ conn[c].inbuf = <<>>

(***************************************************************************)
(* C19: the emulator's lock is held only by a handler between its lock()   *)
(* after the read and its end, never by one that waits for its client's    *)
(* request; every handler that holds the lock releases it in the end, and  *)
(* every handler whose read has returned ends in the end, whatever the     *)
(* other clients do, a client that never sends included.                   *)
(***************************************************************************)
C19_LockNeverHeldWaiting ==
    /\ []LockHeldInMatchOnly
    /\ \A c \in Clients : (lock = c) ~> (lock # c)
    /\ \A c \in Clients :
          (conn[c].hpc = "wantlock") ~> (conn[c].hpc = "closed")

C19_Witness ==
    \E c, d \in Clients :
        /\ c # d
        /\ Silent(c)
        /\ calls[d] = 2
        /\ conn[d].hpc = "closed" /\ conn[d].out = T_OK
        /\ cl[d].pc = "idle"
        /\ lock = 0

(***************************************************************************)
(* C20: a rendered summary of a SmartSocket never shows the socket on with *)
(* power 0.0 nor off with another power, even with no I/O failure at all   *)
(* and whatever the other owners of the backend do meanwhile.              *)
(***************************************************************************)
C20_SummaryIsSnapshot ==
    \A c \in Clients :
        (render[c].st = "done" /\ ~fault)
        => (render[c].text.state = "on"
              <=> render[c].text.power # <<"0", ".", "0">>)

=============================================================================
